---- MODULE Spec2Model ----
(***************************************************************************)
(* Symbolic fault diagnosis service (src/main.py): forward chaining and    *)
(* backward chaining over propositional Horn rules.                        *)
(*                                                                         *)
(* One behaviour is a /diagnose/forward request followed by a              *)
(* /diagnose/backward request on the same facts and the same rule list,    *)
(* and the same /diagnose/backward request once more.                      *)
(* forward_chain advances one pass of its while loop per step;             *)
(* backward_chain advances one call, one loop decision or one return per   *)
(* step, its Python call stack kept explicitly in `stack`.                 *)
(***************************************************************************)
EXTENDS Integers, Sequences, FiniteSets, TLC

VARIABLES
    rules,      \* the rule list handed to both engines
    reqFacts,   \* req.facts: the raw strings of the request
    reqGoal,    \* req.goal: the raw goal string of the request
    facts,      \* input_facts
    goal,       \* goal (stripped)
    pc,         \* "forward", "backward", "call", "loop", "return", "done"
    known,      \* forward_chain: known
    trace,      \* forward_chain: trace
    applied,    \* forward_chain: applied
    passes,     \* forward_chain: iterations of the while loop so far
    fwdResponse,\* the dicts diagnose_forward has returned (none or one)
    visited,    \* backward_chain: the visited set shared by reference
    stack,      \* backward_chain: the active calls past line 101, innermost last
    callGoal,   \* backward_chain: the goal argument of the call being entered
    ret,        \* backward_chain: the tuple the last finished call returned
    bwdResponse \* the dicts diagnose_backward has returned (none or one)

vars == <<rules, reqFacts, reqGoal, facts, goal, pc, known, trace, applied,
          passes, fwdResponse, visited, stack, callGoal, ret, bwdResponse>>

fwdVars == <<known, trace, applied, passes, fwdResponse>>
bwdVars == <<visited, stack, callGoal, ret, bwdResponse>>
reqVars == <<rules, reqFacts, reqGoal, facts, goal>>

----------------------------------------------------------------------------
(* Bounds of the model *)

\* longest rule list drawn from RulePool
MaxRules == 3

----------------------------------------------------------------------------
(* Knowledge base *)

None == "None"

Rule(ants, cons, desc) ==
    [antecedents |-> ants, consequent |-> cons, description |-> desc]

FORWARD_RULES == <<
    Rule(<<"battery_low">>, "power_unstable", "Low battery can cause unstable power"),
    Rule(<<"power_unstable">>, "system_restarts", "Unstable power can trigger restarts"),
    Rule(<<"no_wifi", "router_off">>, "network_down", "No WiFi and router off implies network down"),
    Rule(<<"network_down">>, "cannot_sync", "If the network is down, syncing fails"),
    Rule(<<"power_unstable">>, "fault_power_supply", "Unstable power suggests power supply fault"),
    Rule(<<"battery_low", "charging_not_working">>, "fault_battery", "Low battery + charging not working suggests battery fault"),
    Rule(<<"network_down">>, "fault_network", "Network down suggests network fault") >>

\* (the non-breaking hyphen U+2011 of "Wi-Fi" in lines 44-50 is written "-")
BACKWARD_RULES == <<
    Rule(<<"battery_low">>, "power_unstable", "Low battery can cause unstable power"),
    Rule(<<"mains_fluctuation">>, "power_unstable", "Mains fluctuation can cause unstable power"),
    Rule(<<"power_unstable">>, "system_restarts", "Unstable power can trigger restarts"),
    Rule(<<"interference", "weak_signal">>, "no_wifi", "Interference and weak signal cause Wi-Fi loss"),
    Rule(<<"no_wifi", "router_off">>, "network_down", "Router off with no Wi-Fi implies network is down"),
    Rule(<<"network_down">>, "cannot_sync", "No network means syncing fails"),
    Rule(<<"power_unstable", "system_restarts">>, "fault_power_supply", "Unstable power AND restarts indicate power supply fault"),
    Rule(<<"battery_low", "charging_not_working", "old_battery">>, "fault_battery", "Low, not charging, and aged battery indicates battery fault"),
    Rule(<<"no_wifi", "router_off", "cannot_sync">>, "fault_network", "No Wi-Fi, router off, and cannot sync indicates network fault") >>

\* str.startswith(FAULT_PREFIX) over the atom names of the model
FaultNames == {"fault_battery", "fault_network", "fault_power_supply"}
startswith_FAULT_PREFIX(f) == f \in FaultNames

----------------------------------------------------------------------------
(* Inputs *)

\* Python's string order on the atom names of the model
AtomOrder == <<"a", "b", "battery_low", "c", "cannot_sync", "charging_not_working",
               "fault_battery", "fault_network", "fault_power_supply",
               "interference", "mains_fluctuation", "network_down", "no_wifi",
               "old_battery", "power_unstable", "router_off", "system_restarts",
               "weak_signal", "z">>

sorted(S) == SelectSeq(AtomOrder, LAMBDA x : x \in S)

\* str.strip() on the raw strings of the model
strip(s) ==
    CASE s = "b "  -> "b"
      [] s = "  "  -> ""
      [] s = " battery_low" -> "battery_low"
      [] s = " fault_battery " -> "fault_battery"
      [] OTHER     -> s

\* set(a.strip() for a in req.facts if a and a.strip())
input_facts(raw) ==
    {strip(raw[i]) : i \in {j \in DOMAIN raw : raw[j] # "" /\ strip(raw[j]) # ""}}

PoolAtoms == {"a", "b", "c"}

\* rule shapes over PoolAtoms: chains, a shared consequent, a dependency
\* cycle (a <- b, b <- a) and rules without antecedents
RulePool == {
    Rule(<<"b", "c">>, "a", None),
    Rule(<<"b">>, "a", None),
    Rule(<<"c">>, "b", None),
    Rule(<<"a">>, "b", None),
    Rule(<<>>, "b", None),
    Rule(<<>>, "c", None) }

RuleLists == UNION {[1..n -> RulePool] : n \in 0..MaxRules}

PoolRequests ==
    {sorted(S) : S \in SUBSET PoolAtoms}
      \cup {<<"  ", "b ", "", "b", "c">>}

PoolGoals == PoolAtoms \cup {"z"}

SampleRequests ==
    {sorted(S) : S \in SUBSET {"battery_low", "power_unstable", "system_restarts",
                               "no_wifi", "router_off"}}
      \cup {<<"battery_low", "charging_not_working", "old_battery">>,
            <<"battery_low", "fault_network">>,
            <<" battery_low", "">>}

SampleGoals == {"fault_power_supply", " fault_battery ", "fault_network",
                "system_restarts", "unknown_atom"}

----------------------------------------------------------------------------
(* forward_chain *)

\* line 71 with `any` written for `all`
Fires_any(r, kn) ==
    /\ \E i \in DOMAIN r.antecedents : r.antecedents[i] \in kn
    /\ r.consequent \notin kn

\* line 71 with the test of the antecedents inverted
Fires_inverted(r, kn) ==
    /\ \E i \in DOMAIN r.antecedents : r.antecedents[i] \notin kn
    /\ r.consequent \notin kn

\* line 71 without `r.consequent not in known`
Fires_noKnownCheck(r, kn) ==
    \A i \in DOMAIN r.antecedents : r.antecedents[i] \in kn

\* the condition of line 71
Fires(r, kn) ==
    /\ \A i \in DOMAIN r.antecedents : r.antecedents[i] \in kn
    /\ r.consequent \notin kn

\* lines 72-77 without line 78: applied is left as it was
Fire_noApplied(r, st) ==
    [known   |-> st.known \cup {r.consequent},
     trace   |-> Append(st.trace, [antecedents |-> r.antecedents,
                                   consequent  |-> r.consequent,
                                   description |-> r.description]),
     applied |-> st.applied]

\* lines 72-78: one firing
Fire(r, st) ==
    [known   |-> st.known \cup {r.consequent},
     trace   |-> Append(st.trace, [antecedents |-> r.antecedents,
                                   consequent  |-> r.consequent,
                                   description |-> r.description]),
     applied |-> TRUE]

\* lines 69-78 walking the rule list from its end
RECURSIVE ForLoop_reversed(_, _, _)
ForLoop_reversed(rs, i, st) ==
    IF i > Len(rs) THEN st
    ELSE LET r == rs[Len(rs) + 1 - i]
         IN  ForLoop_reversed(rs, i + 1, IF Fires(r, st.known) THEN Fire(r, st) ELSE st)

\* lines 69-78: the for loop over rs[i..], from the state st
RECURSIVE ForLoop(_, _, _)
ForLoop(rs, i, st) ==
    IF i > Len(rs) THEN st
    ELSE ForLoop(rs, i + 1, IF Fires(rs[i], st.known) THEN Fire(rs[i], st) ELSE st)

\* lines 68-78: one iteration of the while loop
ForwardPassOf(kn, tr, rs) ==
    ForLoop(rs, 1, [known |-> kn, trace |-> tr, applied |-> FALSE])

\* lines 67-79: the while loop, from (kn, tr) with applied = TRUE
RECURSIVE WhileLoop(_, _, _)
WhileLoop(kn, tr, rs) ==
    LET st == ForwardPassOf(kn, tr, rs)
    IN  IF st.applied THEN WhileLoop(st.known, st.trace, rs)
        ELSE [known |-> st.known, trace |-> st.trace]

\* forward_chain(facts, rules) -> (known, trace)
forward_chain(fs, rs) == WhileLoop(fs, <<>>, rs)

----------------------------------------------------------------------------
(* backward_chain *)

Given(g)       == [goal |-> g, type |-> "given"]
Cycle(g)       == [goal |-> g, type |-> "cycle"]
NotProvable(g) == [goal |-> g, type |-> "not-provable"]

\* lines 113-122
Inferred(g, r, sub) ==
    [goal |-> g, type |-> "inferred",
     using |-> [antecedents |-> r.antecedents,
                consequent  |-> r.consequent,
                description |-> r.description],
     subproof |-> sub]

\* line 101
candidate_rules(g, rs) == SelectSeq(rs, LAMBDA r : r.consequent = g)

\* backward_chain(goal, facts, rules, visited) as a function of its
\* arguments: (provable, proof_steps) and visited as the call leaves it
RECURSIVE backward_chain(_, _, _, _)
RECURSIVE ForCandidates(_, _, _, _, _, _)
RECURSIVE ForAntecedents(_, _, _, _, _, _)

\* lines 88-101 with the test of line 95 ahead of the test of line 92
backward_chain_cycleFirst(g, fs, rs, vis) ==
    IF g \in vis
    THEN [ok |-> FALSE, proof |-> <<Cycle(g)>>, visited |-> vis]
    ELSE IF g \in fs
    THEN [ok |-> TRUE, proof |-> <<Given(g)>>, visited |-> vis]
    ELSE ForCandidates(g, candidate_rules(g, rs), 1, fs, rs, vis \cup {g})

\* lines 88-101
backward_chain(g, fs, rs, vis) ==
    IF g \in fs
    THEN [ok |-> TRUE, proof |-> <<Given(g)>>, visited |-> vis]
    ELSE IF g \in vis
    THEN [ok |-> FALSE, proof |-> <<Cycle(g)>>, visited |-> vis]
    ELSE ForCandidates(g, candidate_rules(g, rs), 1, fs, rs, vis \cup {g})

\* lines 102-126: the loop over the candidates cands[ri..]
ForCandidates(g, cands, ri, fs, rs, vis) ==
    IF ri > Len(cands)
    THEN [ok |-> FALSE, proof |-> <<NotProvable(g)>>, visited |-> vis]
    ELSE LET sub == ForAntecedents(cands[ri].antecedents, 1, fs, rs, vis, <<>>)
         IN  IF sub.ok
             THEN [ok |-> TRUE, proof |-> <<Inferred(g, cands[ri], sub.proof)>>,
                   visited |-> sub.visited]
             ELSE ForCandidates(g, cands, ri + 1, fs, rs, sub.visited)

\* lines 105-110: the loop over the antecedents ants[ai..], subproof so far
ForAntecedents(ants, ai, fs, rs, vis, subproof) ==
    IF ai > Len(ants)
    THEN [ok |-> TRUE, proof |-> subproof, visited |-> vis]
    ELSE LET r == backward_chain(ants[ai], fs, rs, vis)
         IN  IF r.ok
             THEN ForAntecedents(ants, ai + 1, fs, rs, r.visited, subproof \o r.proof)
             ELSE [ok |-> FALSE, proof |-> subproof \o r.proof, visited |-> r.visited]

\* a call past line 101: its goal, its candidates, the candidate and the
\* antecedent the two for loops stand at, and subproof
Frame(g, rs) ==
    [goal |-> g, candidate_rules |-> candidate_rules(g, rs),
     ri |-> 1, ai |-> 1, subproof |-> <<>>]

Top == stack[Len(stack)]
Pop == SubSeq(stack, 1, Len(stack) - 1)
SetTop(f) == [stack EXCEPT ![Len(stack)] = f]

----------------------------------------------------------------------------
(* The requests *)

Init ==
    /\ \/ /\ rules \in RuleLists
          /\ reqFacts \in PoolRequests
          /\ reqGoal \in PoolGoals
       \/ /\ rules \in {FORWARD_RULES, BACKWARD_RULES}
          /\ reqFacts \in SampleRequests
          /\ reqGoal \in SampleGoals
    /\ facts = input_facts(reqFacts)
    /\ goal = strip(reqGoal)
    /\ pc = "forward"
    /\ known = facts
    /\ trace = <<>>
    /\ applied = TRUE
    /\ passes = 0
    /\ fwdResponse = <<>>
    /\ visited = {}
    /\ stack = <<>>
    /\ callGoal = goal
    /\ ret = [ok |-> FALSE, proof |-> <<>>]
    /\ bwdResponse = <<>>

\* lines 67-78 with line 64 as `known = facts`: known is the caller's set
ForwardPass_aliased ==
    /\ pc = "forward"
    /\ applied
    /\ LET st == ForwardPassOf(known, trace, rules)
       IN  /\ known' = st.known
           /\ facts' = st.known
           /\ trace' = st.trace
           /\ applied' = st.applied
    /\ passes' = passes + 1
    /\ UNCHANGED <<pc, fwdResponse>>
    /\ UNCHANGED <<rules, reqFacts, reqGoal, goal>>
    /\ UNCHANGED bwdVars

\* lines 67-78: one pass of the while loop of forward_chain
ForwardPass ==
    /\ pc = "forward"
    /\ applied
    /\ LET st == ForwardPassOf(known, trace, rules)
       IN  /\ known' = st.known
           /\ trace' = st.trace
           /\ applied' = st.applied
    /\ passes' = passes + 1
    /\ UNCHANGED <<pc, fwdResponse>>
    /\ UNCHANGED reqVars
    /\ UNCHANGED bwdVars

\* line 170 reading the derived facts alone instead of all_facts
DiagnoseForwardReturn_derivedFaults ==
    /\ pc = "forward"
    /\ ~applied
    /\ fwdResponse' = <<[input_facts   |-> sorted(facts),
                         derived_facts |-> sorted(known \ facts),
                         trace         |-> trace,
                         faults        |-> sorted({f \in known \ facts : startswith_FAULT_PREFIX(f)})]>>
    /\ pc' = "backward"
    /\ UNCHANGED <<known, trace, applied, passes>>
    /\ UNCHANGED reqVars
    /\ UNCHANGED bwdVars

\* line 79 and lines 169-176: forward_chain returns, diagnose_forward answers
DiagnoseForwardReturn ==
    /\ pc = "forward"
    /\ ~applied
    /\ fwdResponse' = <<[input_facts   |-> sorted(facts),
                         derived_facts |-> sorted(known \ facts),
                         trace         |-> trace,
                         faults        |-> sorted({f \in known : startswith_FAULT_PREFIX(f)})]>>
    /\ pc' = "backward"
    /\ UNCHANGED <<known, trace, applied, passes>>
    /\ UNCHANGED reqVars
    /\ UNCHANGED bwdVars

\* lines 180-182 with the default of line 83 as `visited = set()`, one set
\* shared by every call that omits visited
DiagnoseBackward_sharedVisited ==
    /\ pc = "backward"
    /\ callGoal' = goal
    /\ pc' = "call"
    /\ UNCHANGED <<visited, stack, ret, bwdResponse>>
    /\ UNCHANGED reqVars
    /\ UNCHANGED fwdVars

\* lines 180-182 and 88-89: diagnose_backward calls backward_chain without
\* visited, which starts from a fresh empty set
DiagnoseBackward ==
    /\ pc = "backward"
    /\ callGoal' = goal
    /\ visited' = {}
    /\ pc' = "call"
    /\ UNCHANGED <<stack, ret, bwdResponse>>
    /\ UNCHANGED reqVars
    /\ UNCHANGED fwdVars

\* lines 92-93
ReturnGiven ==
    /\ pc = "call"
    /\ callGoal \in facts
    /\ ret' = [ok |-> TRUE, proof |-> <<Given(callGoal)>>]
    /\ pc' = "return"
    /\ UNCHANGED <<visited, stack, callGoal, bwdResponse>>
    /\ UNCHANGED reqVars
    /\ UNCHANGED fwdVars

\* lines 95-96 answering a goal met again as if it were proved
ReturnCycle_asProved ==
    /\ pc = "call"
    /\ callGoal \notin facts
    /\ callGoal \in visited
    /\ ret' = [ok |-> TRUE, proof |-> <<Given(callGoal)>>]
    /\ pc' = "return"
    /\ UNCHANGED <<visited, stack, callGoal, bwdResponse>>
    /\ UNCHANGED reqVars
    /\ UNCHANGED fwdVars

\* lines 95-96
ReturnCycle ==
    /\ pc = "call"
    /\ callGoal \notin facts
    /\ callGoal \in visited
    /\ ret' = [ok |-> FALSE, proof |-> <<Cycle(callGoal)>>]
    /\ pc' = "return"
    /\ UNCHANGED <<visited, stack, callGoal, bwdResponse>>
    /\ UNCHANGED reqVars
    /\ UNCHANGED fwdVars

\* lines 98-101 without visited.add(goal) of line 98
EnterGoal_noVisited ==
    /\ pc = "call"
    /\ callGoal \notin facts
    /\ callGoal \notin visited
    /\ stack' = Append(stack, Frame(callGoal, rules))
    /\ pc' = "loop"
    /\ UNCHANGED <<visited, callGoal, ret, bwdResponse>>
    /\ UNCHANGED reqVars
    /\ UNCHANGED fwdVars

\* lines 98-101
EnterGoal ==
    /\ pc = "call"
    /\ callGoal \notin facts
    /\ callGoal \notin visited
    /\ visited' = visited \cup {callGoal}
    /\ stack' = Append(stack, Frame(callGoal, rules))
    /\ pc' = "loop"
    /\ UNCHANGED <<callGoal, ret, bwdResponse>>
    /\ UNCHANGED reqVars
    /\ UNCHANGED fwdVars

\* lines 105-106: the recursive call for the next antecedent
CallSubgoal ==
    /\ pc = "loop"
    /\ Top.ri <= Len(Top.candidate_rules)
    /\ Top.ai <= Len(Top.candidate_rules[Top.ri].antecedents)
    /\ callGoal' = Top.candidate_rules[Top.ri].antecedents[Top.ai]
    /\ pc' = "call"
    /\ UNCHANGED <<visited, stack, ret, bwdResponse>>
    /\ UNCHANGED reqVars
    /\ UNCHANGED fwdVars

\* lines 106-107 with ok: the antecedent is proved, on to the next one
SubgoalProved ==
    /\ pc = "return"
    /\ stack # <<>>
    /\ ret.ok
    /\ stack' = SetTop([Top EXCEPT !.subproof = Top.subproof \o ret.proof,
                                   !.ai = Top.ai + 1])
    /\ pc' = "loop"
    /\ UNCHANGED <<visited, callGoal, ret, bwdResponse>>
    /\ UNCHANGED reqVars
    /\ UNCHANGED fwdVars

\* lines 106-110 with subproof = [] moved out of the loop over the candidates
SubgoalFailed_keepSubproof ==
    /\ pc = "return"
    /\ stack # <<>>
    /\ ~ret.ok
    /\ stack' = SetTop([Top EXCEPT !.subproof = Top.subproof \o ret.proof,
                                   !.ri = Top.ri + 1,
                                   !.ai = 1])
    /\ pc' = "loop"
    /\ UNCHANGED <<visited, callGoal, ret, bwdResponse>>
    /\ UNCHANGED reqVars
    /\ UNCHANGED fwdVars

\* lines 106-110 without the break of line 110 and with all_ok left True:
\* the loop goes on to the next antecedent of the same candidate
SubgoalFailed_noBreak ==
    /\ pc = "return"
    /\ stack # <<>>
    /\ ~ret.ok
    /\ stack' = SetTop([Top EXCEPT !.subproof = Top.subproof \o ret.proof,
                                   !.ai = Top.ai + 1])
    /\ pc' = "loop"
    /\ UNCHANGED <<visited, callGoal, ret, bwdResponse>>
    /\ UNCHANGED reqVars
    /\ UNCHANGED fwdVars

\* lines 106-110 with not ok, then 102-104: break, on to the next candidate
SubgoalFailed ==
    /\ pc = "return"
    /\ stack # <<>>
    /\ ~ret.ok
    /\ stack' = SetTop([Top EXCEPT
                          !.subproof = IF Top.ri + 1 <= Len(Top.candidate_rules)
                                       THEN <<>>
                                       ELSE Top.subproof \o ret.proof,
                          !.ri = Top.ri + 1,
                          !.ai = 1])
    /\ pc' = "loop"
    /\ UNCHANGED <<visited, callGoal, ret, bwdResponse>>
    /\ UNCHANGED reqVars
    /\ UNCHANGED fwdVars

\* lines 111-123: every antecedent of the candidate is proved
ReturnInferred ==
    /\ pc = "loop"
    /\ Top.ri <= Len(Top.candidate_rules)
    /\ Top.ai > Len(Top.candidate_rules[Top.ri].antecedents)
    /\ ret' = [ok |-> TRUE,
               proof |-> <<Inferred(Top.goal, Top.candidate_rules[Top.ri], Top.subproof)>>]
    /\ stack' = Pop
    /\ pc' = "return"
    /\ UNCHANGED <<visited, callGoal, bwdResponse>>
    /\ UNCHANGED reqVars
    /\ UNCHANGED fwdVars

\* line 126 naming the last subgoal tried instead of the goal
ReturnNotProvable_lastSubgoal ==
    /\ pc = "loop"
    /\ Top.ri > Len(Top.candidate_rules)
    /\ ret' = [ok |-> FALSE, proof |-> <<NotProvable(callGoal)>>]
    /\ stack' = Pop
    /\ pc' = "return"
    /\ UNCHANGED <<visited, callGoal, bwdResponse>>
    /\ UNCHANGED reqVars
    /\ UNCHANGED fwdVars

\* line 126: no candidate is left
ReturnNotProvable ==
    /\ pc = "loop"
    /\ Top.ri > Len(Top.candidate_rules)
    /\ ret' = [ok |-> FALSE, proof |-> <<NotProvable(Top.goal)>>]
    /\ stack' = Pop
    /\ pc' = "return"
    /\ UNCHANGED <<visited, callGoal, bwdResponse>>
    /\ UNCHANGED reqVars
    /\ UNCHANGED fwdVars

\* lines 182-188: the top-level call has returned, diagnose_backward answers
DiagnoseBackwardReturn ==
    /\ pc = "return"
    /\ stack = <<>>
    /\ bwdResponse' = Append(bwdResponse, [goal     |-> goal,
                                           facts    |-> sorted(facts),
                                           provable |-> ret.ok,
                                           proof    |-> ret.proof])
    /\ pc' = "done"
    /\ UNCHANGED <<visited, stack, callGoal, ret>>
    /\ UNCHANGED reqVars
    /\ UNCHANGED fwdVars

\* lines 178-179: the same /diagnose/backward request arrives once more
RepeatBackward ==
    /\ pc = "done"
    /\ Len(bwdResponse) = 1
    /\ pc' = "backward"
    /\ UNCHANGED bwdVars
    /\ UNCHANGED reqVars
    /\ UNCHANGED fwdVars

Next ==
    \/ ForwardPass
    \/ DiagnoseForwardReturn
    \/ DiagnoseBackward
    \/ ReturnGiven
    \/ ReturnCycle
    \/ EnterGoal
    \/ CallSubgoal
    \/ SubgoalProved
    \/ SubgoalFailed
    \/ ReturnInferred
    \/ ReturnNotProvable
    \/ DiagnoseBackwardReturn
    \/ RepeatBackward

Spec == Init /\ [][Next]_vars

\* both engines are synchronous and run to completion (spec section 5)
FairSpec == Spec /\ WF_vars(Next)

----------------------------------------------------------------------------
(* Properties of forward_chain *)

\* forward_chain has returned: known and trace are its result
ForwardReturned == pc # "forward"

Consequents(rs) == {rs[i].consequent : i \in DOMAIN rs}
Antecedents(r) == {r.antecedents[i] : i \in DOMAIN r.antecedents}

\* S is closed under every rule of rs
Closed(S, rs) ==
    \A i \in DOMAIN rs : Antecedents(rs[i]) \subseteq S => rs[i].consequent \in S

\* the sets over the atoms in play that hold fs and are closed under rs
ClosedSupersets(fs, rs) ==
    {S \in SUBSET (fs \cup Consequents(rs)) : fs \subseteq S /\ Closed(S, rs)}

\* C1: the set forward_chain returns holds every input fact, is closed under
\* every rule, and lies inside every set that holds the facts and is closed
\* under the rules (it is the least fixed point: nothing in it is underivable).
C1_LeastFixedPoint ==
    pc = "backward" =>
        /\ facts \subseteq known
        /\ Closed(known, rules)
        /\ \A S \in ClosedSupersets(facts, rules) : known \subseteq S

\* a closure that took three passes and added two atoms
C1_Witness ==
    /\ pc = "backward"
    /\ passes >= 3
    /\ Cardinality(known \ facts) >= 2

\* C5: forward_chain terminates for every fact set and rule list. A pass
\* leaves applied set exactly when it added an atom; the loop goes on to
\* another pass exactly while applied is set, and is left, with known as the
\* last pass left it, after the first pass that added nothing.
C5_ForwardTerminates ==
    /\ <>(pc # "forward")
    /\ [][pc = "forward" =>
            /\ applied => /\ pc' = "forward"
                          /\ passes' = passes + 1
                          /\ known \subseteq known'
                          /\ applied' <=> known' # known
            /\ ~applied => /\ pc' # "forward"
                           /\ known' = known]_vars

\* forward_chain returned from the empty fact set after two passes
C5_Witness ==
    /\ pc = "backward"
    /\ facts = {}
    /\ passes = 2
    /\ known # {}

\* C6: idempotence. forward_chain on the set forward_chain returned gives
\* that same set and an empty trace.
C6_Idempotence ==
    pc = "backward" =>
        LET again == forward_chain(known, rules)
        IN  /\ again.known = known
            /\ again.trace = <<>>

\* the first run fired two rules
C6_Witness ==
    /\ pc = "backward"
    /\ Len(trace) >= 2

\* the fact sets a request can carry
FactSets == {input_facts(q) : q \in PoolRequests \cup SampleRequests}

\* C7: monotonicity. For every fact set F2 that holds the facts, the set
\* forward_chain returns for the facts lies inside the one it returns for F2.
C7_Monotonicity ==
    pc = "backward" =>
        \A F2 \in FactSets :
            facts \subseteq F2 => known \subseteq forward_chain(F2, rules).known

\* a proper superset of the facts whose closure is properly larger
C7_Witness ==
    /\ pc = "backward"
    /\ known # facts
    /\ \E F2 \in FactSets :
          /\ facts \subseteq F2 /\ facts # F2
          /\ known # forward_chain(F2, rules).known

Range(q) == {q[i] : i \in DOMAIN q}

\* C9: over FORWARD_RULES with input facts {battery_low} the derived facts
\* are fault_power_supply, power_unstable, system_restarts and the faults are
\* fault_power_supply alone; in every answer the derived facts are the known
\* atoms that are no input facts and the faults are the known atoms, input
\* or derived, whose name starts with fault_.
C9_Scenario1 ==
    pc # "forward" =>
        LET r == fwdResponse[1]
        IN  /\ (rules = FORWARD_RULES /\ facts = {"battery_low"}) =>
                  /\ r.derived_facts =
                       <<"fault_power_supply", "power_unstable", "system_restarts">>
                  /\ r.faults = <<"fault_power_supply">>
            /\ Range(r.derived_facts) = known \ facts
            /\ Range(r.faults) =
                  {f \in facts \cup Range(r.derived_facts) : f \in FaultNames}

\* the answer to scenario 1
C9_Witness ==
    /\ pc = "backward"
    /\ rules = FORWARD_RULES
    /\ reqFacts = <<"battery_low">>

\* C11: forward_chain has no side effects. No step of it changes the caller's
\* fact set or the rule list (or anything of the backward engine): it writes
\* known, trace and its own loop state only, so diagnose_forward still reads
\* the facts of the request after the call.
C11_NoSideEffects ==
    /\ [][pc = "forward" =>
            /\ facts' = facts
            /\ rules' = rules
            /\ UNCHANGED <<reqFacts, reqGoal, goal>>
            /\ UNCHANGED <<visited, stack, callGoal, ret, bwdResponse>>]_vars
    /\ [](pc # "forward" =>
            /\ facts = input_facts(reqFacts)
            /\ fwdResponse[1].input_facts = sorted(input_facts(reqFacts)))

\* a pass has added atoms to known next to a non-empty fact set
C11_Witness ==
    /\ pc = "forward"
    /\ passes >= 1
    /\ facts # {}
    /\ known # facts
    /\ rules # <<>>

\* the trace entries the pass being taken appends
NewEntries == SubSeq(trace', Len(trace) + 1, Len(trace'))

\* the rules at the places I, in list order, are the entries the pass being
\* taken appends to the trace so far
FiredAt(I) ==
    /\ SubSeq(trace', 1, Len(trace)) = trace
    /\ Cardinality(I) = Len(NewEntries)
    /\ \A i \in I : rules[i] = NewEntries[Cardinality({j \in I : j <= i})]

\* what is known when the pass being taken reaches rule i, the rules at the
\* places I having fired in it
AtTurn(I, i) == known \cup {rules[j].consequent : j \in {m \in I : m < i}}

\* C15 (as claimed): every rule that fires fires in the pass during which all
\* its antecedents first become known (the first pass, for antecedents that
\* are input facts), and within one pass the trace entries appear in
\* rule-list order.
C15_FiresWhenFirstSatisfied ==
    [][(pc = "forward" /\ applied) =>
         /\ \E I \in SUBSET DOMAIN rules : FiredAt(I)
         /\ \A k \in DOMAIN NewEntries :
               \/ passes = 0
               \/ ~(Antecedents(NewEntries[k]) \subseteq known)]_vars

\* C15 (amended): every rule that fires fires in the first pass at whose turn
\* for that rule all its antecedents are known and its consequent is not:
\* the pass during which the antecedents first become known when the last of
\* them is an input fact or was added by an earlier-listed rule, and the pass
\* after it otherwise. Within one pass the trace entries appear in rule-list
\* order.
C15_FiresAtFirstTurn ==
    [][(pc = "forward" /\ applied) =>
         \E I \in SUBSET DOMAIN rules :
             /\ FiredAt(I)
             /\ \A i \in DOMAIN rules :
                   i \in I <=> /\ Antecedents(rules[i]) \subseteq AtTurn(I, i)
                               /\ rules[i].consequent \notin AtTurn(I, i)]_vars

\* a rule fired one pass after the pass that added its last antecedent,
\* because the rule adding it is listed later
C15_Witness ==
    /\ pc = "backward"
    /\ \E k \in DOMAIN trace : \E j \in 1..(k - 1) :
          /\ trace[j].consequent \in Antecedents(trace[k])
          /\ \A i1, i2 \in DOMAIN rules :
                (rules[i1] = trace[k] /\ rules[i2] = trace[j]) => i1 < i2

\* C17 (as claimed): the passes forward_chain makes, the last one that adds
\* nothing included, are at most the distinct consequents of the rule list.
C17_PassesWithinConsequents ==
    passes <= Cardinality(Consequents(rules))

\* C17 (amended): the passes forward_chain makes, the last one that adds
\* nothing included, are at most the distinct consequents of the rule list
\* plus one (every pass but the last adds a consequent that was not known).
C17_PassesWithinConsequentsPlusOne ==
    /\ passes <= Cardinality(Consequents(rules)) + 1
    /\ passes <= Cardinality(known \ facts) + 1

\* two consequents, each added by a pass of its own, and the last pass
C17_Witness ==
    /\ pc = "backward"
    /\ Cardinality(Consequents(rules)) = 2
    /\ passes = 3

\* C19: the forward trace is a derivation of exactly the new facts. The
\* consequents of its entries are pairwise distinct, none is an input fact,
\* together they are known minus the input facts, and every antecedent of an
\* entry is an input fact or the consequent of an earlier entry.
C19_TraceIsDerivation ==
    /\ \A i, j \in DOMAIN trace : i # j => trace[i].consequent # trace[j].consequent
    /\ \A i \in DOMAIN trace : trace[i].consequent \notin facts
    /\ {trace[i].consequent : i \in DOMAIN trace} = known \ facts
    /\ \A i \in DOMAIN trace :
          \A a \in Antecedents(trace[i]) :
              \/ a \in facts
              \/ \E j \in 1..(i - 1) : trace[j].consequent = a

\* a returned trace with an entry that rests on a fact and on an earlier entry
C19_Witness ==
    /\ pc = "backward"
    /\ \E i \in DOMAIN trace :
          /\ \E a \in Antecedents(trace[i]) : a \in facts
          /\ \E a \in Antecedents(trace[i]) :
                \E j \in 1..(i - 1) : trace[j].consequent = a

----------------------------------------------------------------------------
(* Properties of backward_chain *)

\* the rules used by the inferred steps of a proof, outermost first
RECURSIVE RulesOfProof(_)
RulesOfProof(p) ==
    IF p = <<>> THEN <<>>
    ELSE LET s == Head(p)
         IN  (IF s.type = "inferred"
              THEN <<s.using>> \o RulesOfProof(s.subproof)
              ELSE <<>>) \o RulesOfProof(Tail(p))

\* C2: soundness. Whenever a call of backward_chain returns provable = true,
\* its goal is in the set forward_chain derives from the same facts with the
\* rules that appear in the returned proof; these are rules of the rule list,
\* so the goal is in the set forward_chain derives with the rule list too.
C2_Soundness ==
    (pc = "return" /\ ret.ok) =>
        /\ ret.proof[1].goal \in forward_chain(facts, RulesOfProof(ret.proof)).known
        /\ \A i \in DOMAIN RulesOfProof(ret.proof) :
              \E j \in DOMAIN rules :
                  /\ RulesOfProof(ret.proof)[i].antecedents = rules[j].antecedents
                  /\ RulesOfProof(ret.proof)[i].consequent = rules[j].consequent
        /\ ret.proof[1].goal \in known

\* a top-level proof that chains two rules
C2_Witness ==
    /\ pc = "done"
    /\ ret.ok
    /\ ret.proof[1].type = "inferred"
    /\ Len(RulesOfProof(ret.proof)) >= 2
    /\ goal \notin facts

\* C3 (as claimed): completeness relative to forward chaining. The top-level
\* call returns provable = true exactly when the goal is in the set
\* forward_chain derives from the same facts with the same rule list.
C3_Completeness ==
    pc = "done" => (bwdResponse[1].provable <=> goal \in known)

Rab == Rule(<<"b">>, "a", None)
Rba == Rule(<<"a">>, "b", None)

\* the rule list is the dependency cycle a <- b, b <- a (in any order, rules
\* possibly repeated), no fact is given and the goal is a
CyclicCase ==
    /\ facts = {}
    /\ goal = "a"
    /\ Range(rules) = {Rab, Rba}

\* some step of the proof p, at any depth, has type t
RECURSIVE HasStep(_, _)
HasStep(p, t) ==
    \E i \in DOMAIN p :
        \/ p[i].type = t
        \/ p[i].type = "inferred" /\ HasStep(p[i].subproof, t)

\* C4 (as claimed): on the dependency cycle the top-level call returns
\* provable = false and a proof that contains a step of type cycle.
C4_ReturnsCycleStep ==
    (CyclicCase /\ pc = "done") =>
        /\ ~bwdResponse[1].provable
        /\ HasStep(bwdResponse[1].proof, "cycle")

\* C4 (amended): on the dependency cycle the top-level call terminates and
\* returns provable = false with the single not-provable step for a; the
\* cycle step is what the nested call that meets a again returns to the call
\* for b, and it is not kept in the returned proof.
C4_CycleSafety ==
    /\ CyclicCase ~> (/\ pc = "done"
                      /\ ~bwdResponse[1].provable
                      /\ bwdResponse[1].proof = <<NotProvable("a")>>)
    /\ [](CyclicCase /\ pc = "return" /\ Len(stack) = 2 =>
            ret = [ok |-> FALSE, proof |-> <<Cycle("a")>>])

\* the answer on the dependency cycle
C4_Witness ==
    /\ CyclicCase
    /\ pc = "done"
    /\ visited = {"a", "b"}

\* the request's call returns what backward_chain, the function, returns
\* for the goal from an empty visited set
TopLevelIsFunction ==
    pc = "done" =>
        LET r == backward_chain(goal, facts, rules, {})
        IN  /\ ret = [ok |-> r.ok, proof |-> r.proof]
            /\ visited = r.visited

\* the step s has one subproof entry per antecedent of its rule, in order,
\* each of type given or inferred and itself so formed
RECURSIVE SubproofOk(_)
SubproofOk(s) ==
    s.type = "inferred" =>
        /\ Len(s.subproof) = Len(s.using.antecedents)
        /\ \A i \in DOMAIN s.subproof :
              /\ s.subproof[i].goal = s.using.antecedents[i]
              /\ s.subproof[i].type \in {"given", "inferred"}
              /\ SubproofOk(s.subproof[i])

Scenario4 ==
    /\ rules = BACKWARD_RULES
    /\ facts = {"power_unstable", "system_restarts"}
    /\ goal = "fault_power_supply"

\* C8: the subproof of every inferred step a call returns has one entry per
\* antecedent of the rule used, the i-th for the i-th antecedent, each given
\* or inferred; scenario 4 returns provable = true with an inferred step whose
\* subproof is the two given leaves.
C8_SubproofShape ==
    /\ (pc = "return" /\ ret.ok) => SubproofOk(ret.proof[1])
    /\ (Scenario4 /\ pc = "done") =>
          /\ bwdResponse[1].provable
          /\ bwdResponse[1].proof =
               <<Inferred("fault_power_supply", BACKWARD_RULES[7],
                          <<Given("power_unstable"), Given("system_restarts")>>)>>

\* a proof found by the second candidate after the first one failed partway
C8_Witness ==
    /\ pc = "done"
    /\ ret.ok
    /\ ret.proof[1].type = "inferred"
    /\ Len(ret.proof[1].subproof) >= 1
    /\ ret.proof[1].using # candidate_rules(goal, rules)[1]

\* C10: every call of backward_chain returns one step for the goal it was
\* asked, of type given or inferred when provable is true and of type
\* not-provable or cycle when it is false; every state that is not the final
\* answer has a next step, and the final answer is for the requested goal.
C10_NormalResult ==
    /\ [][(pc' = "return" /\ pc # "return") =>
            LET g == IF pc = "call" THEN callGoal ELSE Top.goal
            IN  /\ Len(ret'.proof) = 1
                /\ ret'.proof[1].goal = g
                /\ ret'.ok => ret'.proof[1].type \in {"given", "inferred"}
                /\ ~ret'.ok => ret'.proof[1].type \in {"not-provable", "cycle"}]_vars
    /\ [](pc = "done" \/ ENABLED Next)
    /\ [](pc = "done" =>
            /\ Len(bwdResponse[1].proof) = 1
            /\ bwdResponse[1].proof[1].goal = goal
            /\ bwdResponse[1].provable = ret.ok)

\* the answer for an unknown goal atom and an empty fact set
C10_Witness ==
    /\ pc = "done"
    /\ facts = {}
    /\ goal = "z"
    /\ rules # <<>>
    /\ bwdResponse[1].proof = <<NotProvable("z")>>


\* the goals of the calls that are on the call stack: the ancestors of the
\* call being entered
ActivePath == {stack[i].goal : i \in DOMAIN stack}

\* C12: whenever backward_chain is entered, visited holds only goals of
\* calls that are ancestors of this call on the call stack, and a cycle
\* step is returned only for a goal that is being proven higher on the
\* current path; an atom visited in a sibling branch is not in visited
C12_VisitedIsActivePath ==
    /\ pc = "call" => visited \subseteq ActivePath
    /\ (pc = "call" /\ callGoal \notin facts /\ callGoal \in visited)
           => callGoal \in ActivePath

\* the positions in rs of the rules that conclude g
CandidateIndices(rs, g) == {i \in DOMAIN rs : rs[i].consequent = g}

\* the entries of rs at the positions K, in list order
AtPositions(rs, K) ==
    [n \in 1..Cardinality(K) |->
        rs[CHOOSE i \in K : Cardinality({k \in K : k <= i}) = n]]

\* rs without the rules that conclude g, except the one at position i
OnlyCandidate(rs, g, i) ==
    AtPositions(rs, {k \in DOMAIN rs : rs[k].consequent # g} \cup {i})

\* C13: when an earlier rule for the goal fails, a later rule for the same
\* goal is still tried, and the visited entries left by the failed attempt
\* do not change its outcome: a later rule that proves the goal when it is
\* the goal's only rule proves it after the earlier rules have failed
C13_LaterRuleStillProves ==
    (pc = "done" /\ goal \notin facts) =>
        \A i \in CandidateIndices(rules, goal) :
            (/\ \E k \in CandidateIndices(rules, goal) : k < i
             /\ backward_chain(goal, facts, OnlyCandidate(rules, goal, i), {}).ok)
                => ret.ok

\* C14: backward_chain tries the rules that conclude the goal in list order
\* and the antecedents of a rule in order; a failing antecedent ends the
\* attempt of its rule, whose later antecedents are not attempted; the first
\* rule whose antecedents all succeeded is the rule reported, and the call
\* returns with it, so that no later rule is attempted
C14_FirstSuccessCommit ==
    [][/\ (pc = "call" /\ pc' = "loop") =>
              stack' = Append(stack, [goal            |-> callGoal,
                                      candidate_rules |-> candidate_rules(callGoal, rules),
                                      ri              |-> 1,
                                      ai              |-> 1,
                                      subproof        |-> <<>>])
       /\ (pc = "loop" /\ pc' = "call") =>
              /\ stack' = stack
              /\ Top.ri <= Len(Top.candidate_rules)
              /\ Top.ai <= Len(Top.candidate_rules[Top.ri].antecedents)
              /\ callGoal' = Top.candidate_rules[Top.ri].antecedents[Top.ai]
       /\ (pc = "return" /\ stack # <<>> /\ ret.ok) =>
              /\ Len(stack') = Len(stack)
              /\ Top'.ri = Top.ri
              /\ Top'.ai = Top.ai + 1
              /\ pc' = "loop"
       /\ (pc = "return" /\ stack # <<>> /\ ~ret.ok) =>
              /\ Len(stack') = Len(stack)
              /\ Top'.ri = Top.ri + 1
              /\ Top'.ai = 1
              /\ pc' = "loop"
       /\ (pc = "loop" /\ pc' = "return" /\ ret'.ok) =>
              /\ Top.ri <= Len(Top.candidate_rules)
              /\ Top.ai = Len(Top.candidate_rules[Top.ri].antecedents) + 1
              /\ ret'.proof[1].type = "inferred"
              /\ ret'.proof[1].using = Top.candidate_rules[Top.ri]
              /\ stack' = Pop
       /\ (pc = "loop" /\ pc' = "return" /\ ~ret'.ok) =>
              /\ Top.ri = Len(Top.candidate_rules) + 1
              /\ stack' = Pop]_vars

\* the goal has three rules, the first failed at a later antecedent, the
\* second is the rule reported and the third was never attempted
C14_Witness ==
    /\ pc = "done"
    /\ ret.ok
    /\ ret.proof[1].type = "inferred"
    /\ LET c == candidate_rules(goal, rules)
       IN  /\ Len(c) = 3
           /\ ret.proof[1].using = c[2]
           /\ c[1] # c[2]
           /\ c[3] # c[2]
           /\ Len(c[1].antecedents) = 2
           /\ c[1].antecedents[1] \in facts

\* the distinct atoms of the facts set and of the rule list
Atoms == facts \cup Consequents(rules)
               \cup UNION {Antecedents(rules[i]) : i \in DOMAIN rules}

\* the number of calls of backward_chain that are active: the calls past
\* line 98, and the call being entered, which may return at once
Depth == IF pc = "call" THEN Len(stack) + 1 ELSE Len(stack)

\* C16 as claimed: the recursion depth of one top-level call, the calls
\* that return at once with a given, cycle or not-provable step included,
\* is at most the number of distinct atoms of the facts and the rule list
\* (stated here only for a goal that is one of these atoms)
C16_DepthWithinAtoms ==
    goal \in Atoms => Depth <= Cardinality(Atoms)

\* C16 amended: the depth is at most the number of distinct atoms plus one;
\* the calls past the cycle check have pairwise distinct goals, none of them
\* a fact, and all but the top-level goal atoms of the rule list
C16_DepthWithinAtomsPlusOne ==
    /\ Depth <= Cardinality(Atoms) + 1
    /\ \A i, j \in DOMAIN stack : stack[i].goal = stack[j].goal => i = j
    /\ \A i \in DOMAIN stack : /\ stack[i].goal \notin facts
                                /\ i > 1 => stack[i].goal \in Atoms
    /\ (goal \in Atoms /\ Depth = Cardinality(Atoms) + 1)
          => pc = "call" /\ callGoal \in visited /\ callGoal \notin facts

\* a call that returns a cycle step, entered at a depth of one more than
\* the number of atoms
C16_Witness ==
    /\ pc = "call"
    /\ callGoal \in visited
    /\ callGoal \notin facts
    /\ Cardinality(Atoms) >= 2
    /\ Depth = Cardinality(Atoms) + 1

\* C18: a goal that is in facts returns provable with the single step given,
\* whatever visited holds and whatever rules conclude the goal, and visited
\* is left as it was: so for every call the request makes, and so for
\* backward_chain as a function of any visited set over the request's atoms
C18_GivenFirst ==
    /\ [][(pc = "call" /\ callGoal \in facts) =>
              /\ ret' = [ok |-> TRUE, proof |-> <<[goal |-> callGoal, type |-> "given"]>>]
              /\ visited' = visited
              /\ stack' = stack
              /\ pc' = "return"]_vars
    /\ [](pc = "backward" =>
              \A g \in facts : \A vis \in SUBSET (facts \cup {goal}) :
                  backward_chain(g, facts, rules, vis) =
                      [ok      |-> TRUE,
                       proof   |-> <<[goal |-> g, type |-> "given"]>>,
                       visited |-> vis])

\* a nested call for a fact that rules conclude too, with visited not empty
C18_Witness ==
    /\ pc = "return"
    /\ stack # <<>>
    /\ callGoal \in facts
    /\ candidate_rules(callGoal, rules) # <<>>
    /\ visited # {}
    /\ ret = [ok |-> TRUE, proof |-> <<[goal |-> callGoal, type |-> "given"]>>]

\* C20: the call of backward_chain that omits visited starts from a fresh
\* empty visited set, returns exactly one step, for the requested goal, of
\* type given, inferred or not-provable and never cycle, and its result does
\* not depend on an earlier call: the same request made once more gets the
\* same response, the one backward_chain gives from an empty visited set
C20_FreshTopLevelCall ==
    /\ [][pc = "backward" =>
              /\ visited' = {}
              /\ callGoal' = goal
              /\ stack' = <<>>
              /\ pc' = "call"]_vars
    /\ [](pc = "done" =>
              \A k \in DOMAIN bwdResponse :
                  LET p == bwdResponse[k].proof
                      r == backward_chain(goal, facts, rules, {})
                  IN  /\ Len(p) = 1
                      /\ p[1].goal = goal
                      /\ p[1].type \in {"given", "inferred", "not-provable"}
                      /\ bwdResponse[k].provable = r.ok
                      /\ p = r.proof
                      /\ bwdResponse[k] = bwdResponse[1])

\* the second of two calls proved the goal, which the first call had left
\* in its visited set together with another goal
C20_Witness ==
    /\ pc = "done"
    /\ Len(bwdResponse) = 2
    /\ bwdResponse[2].provable
    /\ bwdResponse[2].proof[1].type = "inferred"
    /\ goal \in visited
    /\ Cardinality(visited) >= 2

====
